---- MODULE Spec2Model ----
(***************************************************************************)
(* Model of backend/app.py: the /api/recommend endpoint.                   *)
(*                                                                         *)
(* The handler reads two module-level datasets (users, contents), scores   *)
(* every content item against the requested user's preferences with        *)
(* sklearn's cosine_similarity, sorts the (id, score) pairs by score in    *)
(* descending order, keeps three, and answers with their titles.           *)
(*                                                                         *)
(* Scores are floating-point numbers.  They are modelled as binary         *)
(* floating-point values with a MantBits-bit significand, every operation  *)
(* rounded to nearest, ties to even, as IEEE 754 arithmetic does; the      *)
(* program's binary64 has 53 bits, the model a narrower significand.       *)
(***************************************************************************)
EXTENDS Integers, Sequences, FiniteSets

\* ------------------------------------------------------------------ bounds

\* Significand width of the modelled floating-point format.
MantBits == 13
\* Longest catalog the general data sets hold.
MaxCat == 4
\* Number of request slots (worker threads) of the concurrent specification.
NumReq == 2

\* ------------------------------------------------- floating-point numbers
\* A non-negative float is [m, e], standing for m * 2^e, with m = 0 (zero,
\* e = 0) or 2^(MantBits-1) <= m < 2^MantBits, so that equal values are equal
\* records.

RECURSIVE Pow2(_)
Pow2(n) == IF n <= 0 THEN 1 ELSE 2 * Pow2(n - 1)

RECURSIVE BitLen(_)
BitLen(n) == IF n = 0 THEN 0 ELSE 1 + BitLen(n \div 2)

FlZero == [m |-> 0, e |-> 0]

\* M * 2^E rounded to the nearest float, ties to even.
RoundTo(M, E) ==
  IF M = 0 THEN FlZero
  ELSE LET L == BitLen(M) IN
    IF L <= MantBits
    THEN [m |-> M * Pow2(MantBits - L), e |-> E - (MantBits - L)]
    ELSE LET s == L - MantBits
             q == M \div Pow2(s)
             r == M % Pow2(s)
             h == Pow2(s - 1)
             up == IF r > h \/ (r = h /\ q % 2 = 1) THEN q + 1 ELSE q
         IN IF up = Pow2(MantBits)
            THEN [m |-> Pow2(MantBits - 1), e |-> E + s + 1]
            ELSE [m |-> up, e |-> E + s]

FromInt(n) == RoundTo(n, 0)

\* The two special values: not-a-number and +infinity.
FlNaN == [m |-> -1, e |-> 0]
FlInf == [m |-> -2, e |-> 0]
IsNaN(a) == a.m = -1
IsInf(a) == a.m = -2

FlMul(a, b) ==
  IF IsNaN(a) \/ IsNaN(b) THEN FlNaN
  ELSE IF IsInf(a) \/ IsInf(b)
  THEN (IF a.m = 0 \/ b.m = 0 THEN FlNaN ELSE FlInf)
  ELSE RoundTo(a.m * b.m, a.e + b.e)

FlAdd(a, b) ==
  IF IsNaN(a) \/ IsNaN(b) THEN FlNaN
  ELSE IF IsInf(a) \/ IsInf(b) THEN FlInf
  ELSE IF a.m = 0 THEN b
  ELSE IF b.m = 0 THEN a
  ELSE IF a.e - b.e >= MantBits + 2 THEN a
  ELSE IF b.e - a.e >= MantBits + 2 THEN b
  ELSE LET lo == IF a.e < b.e THEN a.e ELSE b.e
       IN RoundTo(a.m * Pow2(a.e - lo) + b.m * Pow2(b.e - lo), lo)

\* a / b: the quotient to MantBits+2 bits and a sticky bit, rounded; 0/0 is
\* not a number and x/0 is infinite.
FlDiv(a, b) ==
  IF IsNaN(a) \/ IsNaN(b) THEN FlNaN
  ELSE IF IsInf(a) THEN (IF IsInf(b) THEN FlNaN ELSE FlInf)
  ELSE IF IsInf(b) THEN FlZero
  ELSE IF b.m = 0 THEN (IF a.m = 0 THEN FlNaN ELSE FlInf)
  ELSE IF a.m = 0 THEN FlZero
  ELSE LET n == a.m * Pow2(MantBits + 1)
           Q == n \div b.m
           st == IF n % b.m = 0 THEN 0 ELSE 1
       IN RoundTo(2 * Q + st, a.e - b.e - (MantBits + 1) - 1)

RECURSIVE IsqrtIn(_, _, _)
\* The largest r in lo..hi with r * r <= n (lo * lo <= n is given).
IsqrtIn(n, lo, hi) ==
  IF lo >= hi THEN lo
  ELSE LET mid == (lo + hi + 1) \div 2
       IN IF mid * mid <= n THEN IsqrtIn(n, mid, hi) ELSE IsqrtIn(n, lo, mid - 1)

Isqrt(n) == IsqrtIn(n, 0, Pow2((BitLen(n) + 1) \div 2))

\* sqrt(a): the root of m * 2^k (k making the remaining exponent even) to
\* MantBits+1 bits and a sticky bit, rounded.
FlSqrt(a) ==
  IF a.m <= 0 THEN a
  ELSE LET k0 == MantBits + 1
           k == IF (a.e - k0) % 2 = 0 THEN k0 ELSE k0 + 1
           N == a.m * Pow2(k)
           r == Isqrt(N)
           st == IF r * r = N THEN 0 ELSE 1
       IN RoundTo(2 * r + st, ((a.e - k) \div 2) - 1)

\* a < b, for floats that are not negative; false when either is not a number.
FlLt(a, b) ==
  IF IsNaN(a) \/ IsNaN(b) \/ IsInf(a) THEN FALSE
  ELSE IF IsInf(b) THEN TRUE
  ELSE /\ b.m # 0
       /\ \/ a.m = 0
          \/ a.e < b.e
          \/ (a.e = b.e /\ a.m < b.m)

FlOne == FromInt(1)

\* --------------------------------------------------- sklearn and numpy

\* The exception-or-value results of the library calls.
Raised(name) == [exc |-> name, val |-> FlZero]
Returned(v) == [exc |-> "", val |-> v]

RECURSIVE SumSquares(_, _)
\* einsum("ij,ij->i", X, X) of one row: the squares, summed left to right.
SumSquares(X, n) ==
  IF n = 0 THEN FlZero
  ELSE FlAdd(SumSquares(X, n - 1), FlMul(FromInt(X[n]), FromInt(X[n])))

\* Mutant: the zero norm is left as it is, and 0/0 follows.
HandleZeroNormAbsent(norm) == norm

\* normalize's _handle_zeros_in_scale: a zero norm is replaced by 1.
HandleZeroNorm(norm) == IF norm.m = 0 THEN FlOne ELSE norm

\* Mutant: the row is divided by its squared norm, the root forgotten.
NormalizeNoSqrt(X) ==
  LET ss == SumSquares(X, Len(X))
      norm == IF ss.m = 0 THEN FromInt(1) ELSE ss
  IN [k \in 1..Len(X) |-> FlDiv(FromInt(X[k]), norm)]

\* sklearn.preprocessing.normalize of one row: X / ||X||.
Normalize(X) ==
  LET norm == HandleZeroNorm(FlSqrt(SumSquares(X, Len(X))))
  IN [k \in 1..Len(X) |-> FlDiv(FromInt(X[k]), norm)]

RECURSIVE Dot(_, _, _)
Dot(A, B, n) ==
  IF n = 0 THEN FlZero ELSE FlAdd(Dot(A, B, n - 1), FlMul(A[n], B[n]))

\* Mutant: a longer second row is accepted and its tail ignored.
DimensionsOkPrefix(X, Y) == Len(Y) >= Len(X) /\ Len(X) > 0

\* check_pairwise_arrays: rows of different widths, or of width 0, raise.
DimensionsOk(X, Y) == Len(X) = Len(Y) /\ Len(X) > 0

\* cosine_similarity(np.array([X]), np.array([Y]))[0][0]
cosine_similarity(X, Y) ==
  IF ~DimensionsOk(X, Y) THEN Raised("ValueError")
  ELSE Returned(Dot(Normalize(X), Normalize(Y), Len(X)))

\* ------------------------------------------------- the module's data

\* users and contents as the module defines them (lines 12-24).
FixtureUsers == [u \in {1, 2} |-> IF u = 1 THEN <<5, 4, 0, 0, 5>> ELSE <<0, 0, 5, 4, 3>>]

FixtureContents ==
  << [id |-> 1, title |-> "Action Adventure", features |-> <<1, 0, 0, 0, 1>>],
     [id |-> 2, title |-> "Sci-Fi Epic", features |-> <<0, 1, 0, 0, 1>>],
     [id |-> 3, title |-> "Comedy Special", features |-> <<0, 0, 1, 1, 0>>],
     [id |-> 4, title |-> "Drama Series", features |-> <<0, 0, 1, 0, 0>>],
     [id |-> 5, title |-> "Fantasy Tale", features |-> <<1, 0, 0, 0, 1>>] >>

\* Other data sets of the same shape: preference and feature vectors of one
\* length, unique content ids.  The pool holds two items with the same
\* features, two parallel ones of different lengths, and a zero vector.
UserVecs == {<<0, 0>>, <<1, 1>>, <<1, 0>>}

ItemPool ==
  { [id |-> 7, title |-> "Seven", features |-> <<1, 1>>],
    [id |-> 3, title |-> "Three", features |-> <<3, 3>>],
    [id |-> 9, title |-> "Nine", features |-> <<1, 0>>],
    [id |-> 4, title |-> "Four", features |-> <<0, 0>>],
    [id |-> 1, title |-> "One", features |-> <<1, 1>>] }

\* Data sets that break the shape: one item's features are longer.
RaggedPool ==
  { [id |-> 7, title |-> "Seven", features |-> <<1, 1>>],
    [id |-> 9, title |-> "Nine", features |-> <<1, 0>>],
    [id |-> 4, title |-> "Four", features |-> <<0, 0>>],
    [id |-> 5, title |-> "Five", features |-> <<1, 0, 1>>] }

\* Every pair of a preference vector and a feature vector of the data sets.
VectorPairs ==
  (UserVecs \cup {FixtureUsers[u] : u \in DOMAIN FixtureUsers})
    \X ({c.features : c \in ItemPool \cup RaggedPool}
          \cup {FixtureContents[k].features : k \in DOMAIN FixtureContents})

\* The scores of all pairs, computed once.
SimilarityTable ==
  { [X |-> p[1], Y |-> p[2], sim |-> cosine_similarity(p[1], p[2])] : p \in VectorPairs }

\* The call at line 49.
Similarity(X, Y) == (CHOOSE r \in SimilarityTable : r.X = X /\ r.Y = Y).sim

\* ------------------------------------------------------------ JSON, HTTP

\* A JSON value of the request's user_id field: [t, v].  An int n and a
\* bool b carry v = n and v = b; a float carries twice its value (2 is 1.0,
\* 3 is 1.5); a string carries the number it spells; the others carry 0.
JNull == [t |-> "null", v |-> 0]
JInt(n) == [t |-> "int", v |-> n]
JBool(b) == [t |-> "bool", v |-> b]
JFloat(twice) == [t |-> "float", v |-> twice]
JStr(n) == [t |-> "str", v |-> n]
JList == [t |-> "list", v |-> 0]

\* A request body: a JSON object with or without the field, a JSON array, or
\* bytes that are no JSON.
ObjectBody(has, uid) == [kind |-> "object", has |-> has, user_id |-> uid]
ArrayBody == [kind |-> "array", has |-> FALSE, user_id |-> JNull]
MalformedBody == [kind |-> "malformed", has |-> FALSE, user_id |-> JNull]

\* dict.get('user_id'): the field, or None.
DictGet(body) == IF body.has THEN body.user_id ELSE JNull

\* hash(v) raises TypeError for a list and a dict.
Hashable(v) == v.t \notin {"list", "dict"}

\* The int a hashable value equals (True == 1, 1.0 == 1), or -1 for none.
KeyOf(v) ==
  IF v.t \in {"int", "bool"} THEN v.v
  ELSE IF v.t = "float" /\ v.v % 2 = 0 THEN v.v \div 2
  ELSE -1

\* user_id in users
InUsers(v, us) == KeyOf(v) \in DOMAIN us

Response(status, key, titles) == [status |-> status, key |-> key, titles |-> titles]
NoResponse == Response(0, "", <<>>)
\* An unhandled exception: Flask answers 500.
Crash(exc) == Response(500, exc, <<>>)

\* ------------------------------------------------------------ the handler

\* The number of recommendations, the slice [:3].
TopN == 3

\* A frame of recommend()'s locals.  pc is the line about to run.
NewFrame ==
  [pc |-> "idle", body |-> MalformedBody, user_id |-> JNull, user_prefs |-> <<>>,
   i |-> 0, similarities |-> <<>>, top_recs |-> <<>>, rec_titles |-> <<>>,
   response |-> NoResponse]

\* A step's result: the frame and the module's globals after it.
After(L, G) == [loc |-> L, glob |-> G]

Done(L, resp) == [L EXCEPT !.pc = "done", !.response = resp]

\* A call of recommend() with the request's body.
Begin(b) == [NewFrame EXCEPT !.pc = "line37", !.body = b]

\* Lines 37-41: parse the body, read user_id, answer 404 for an unknown one.
Line37(L, G) ==
  IF L.body.kind = "malformed" THEN After(Done(L, Response(400, "BadRequest", <<>>)), G)
  ELSE IF L.body.kind # "object" THEN After(Done(L, Crash("AttributeError")), G)
  ELSE LET uid == DictGet(L.body)
           L1 == [L EXCEPT !.user_id = uid]
       IN IF ~Hashable(uid) THEN After(Done(L1, Crash("TypeError")), G)
          ELSE IF ~InUsers(uid, G.users)
          THEN After(Done(L1, Response(404, "error", <<>>)), G)
          ELSE After([L1 EXCEPT !.pc = "line43"], G)

\* Lines 43-46: the user's preferences, and the empty list of scores.
Line43(L, G) ==
  After([L EXCEPT !.pc = "line47", !.user_prefs = G.users[KeyOf(L.user_id)],
                  !.similarities = <<>>, !.i = 1], G)

\* Lines 47-50: one turn of the loop over contents, or its end.
Line47(L, G) ==
  IF L.i > Len(G.contents) THEN After([L EXCEPT !.pc = "line53"], G)
  ELSE LET content == G.contents[L.i]
           sim == Similarity(L.user_prefs, content.features)
       IN IF sim.exc # "" THEN After(Done(L, Crash(sim.exc)), G)
          ELSE After([L EXCEPT !.similarities = Append(@, <<content.id, sim.val>>),
                               !.i = @ + 1], G)

RECURSIVE InsertAtBeforeEquals(_, _, _)
\* Mutant: x goes before the elements that equal it (an unstable sort).
InsertAtBeforeEquals(s, x, j) ==
  IF j > Len(s) THEN j
  ELSE IF ~FlLt(x[2], s[j][2]) THEN j
  ELSE InsertAtBeforeEquals(s, x, j + 1)

\* The place of x in a list sorted in descending order, after its equals.
RECURSIVE InsertAt(_, _, _)
InsertAt(s, x, j) ==
  IF j > Len(s) THEN j
  ELSE IF FlLt(s[j][2], x[2]) THEN j
  ELSE InsertAt(s, x, j + 1)

InsertDesc(s, x) ==
  LET j == InsertAt(s, x, 1)
  IN SubSeq(s, 1, j - 1) \o <<x>> \o SubSeq(s, j, Len(s))

RECURSIVE SortedFirst(_, _)
\* The first n elements of s, sorted.
SortedFirst(s, n) ==
  IF n = 0 THEN <<>> ELSE InsertDesc(SortedFirst(s, n - 1), s[n])

RECURSIVE AscendingFirst(_, _)
AscendingFirst(s, n) ==
  IF n = 0 THEN <<>>
  ELSE LET done == AscendingFirst(s, n - 1)
           x == s[n]
           j == IF \E k \in 1..Len(done) : FlLt(x[2], done[k][2])
                THEN CHOOSE k \in 1..Len(done) :
                       /\ FlLt(x[2], done[k][2])
                       /\ \A q \in 1..(k - 1) : ~FlLt(x[2], done[q][2])
                ELSE Len(done) + 1
       IN SubSeq(done, 1, j - 1) \o <<x>> \o SubSeq(done, j, Len(done))

\* Mutant: reverse=True is missing, the order is ascending.
sortedAscending(s) == AscendingFirst(s, Len(s))

\* sorted(similarities, key=lambda x: x[1], reverse=True): stable.
sorted(s) == SortedFirst(s, Len(s))

\* Mutant: the slice is missing.
SliceAll(s) == s

\* The slice [:3].
Slice(s) == SubSeq(s, 1, IF Len(s) < TopN THEN Len(s) ELSE TopN)

\* Line 53.
Line53(L, G) ==
  After([L EXCEPT !.pc = "line54", !.top_recs = Slice(sorted(L.similarities))], G)

RECURSIVE FirstWithId(_, _, _)
\* The index of the first content with the id, from j on; 0 when there is none.
FirstWithId(cs, id, j) ==
  IF j > Len(cs) THEN 0
  ELSE IF cs[j].id = id THEN j
  ELSE FirstWithId(cs, id, j + 1)

\* next(c['title'] for c in contents if c['id'] == rec[0])
TitleOf(cs, rec) == cs[FirstWithId(cs, rec[1], 1)].title

\* Mutant: the recommended items are taken out of contents.  An id another
\* call has taken out already is not found: next() raises StopIteration.
Line54Consume(L, G) ==
  IF \E k \in 1..Len(L.top_recs) : FirstWithId(G.contents, L.top_recs[k][1], 1) = 0
  THEN After(Done(L, Crash("StopIteration")), G)
  ELSE LET titles == [k \in 1..Len(L.top_recs) |-> TitleOf(G.contents, L.top_recs[k])]
           left == SelectSeq(G.contents,
                     LAMBDA c : \A k \in 1..Len(L.top_recs) : L.top_recs[k][1] # c.id)
       IN After(Done([L EXCEPT !.rec_titles = titles],
                     Response(200, "recommendations", titles)),
                [G EXCEPT !.contents = left])

\* Lines 54-56: the titles of the selected ids, and the answer.
Line54(L, G) ==
  IF \E k \in 1..Len(L.top_recs) : FirstWithId(G.contents, L.top_recs[k][1], 1) = 0
  THEN After(Done(L, Crash("StopIteration")), G)
  ELSE LET titles == [k \in 1..Len(L.top_recs) |-> TitleOf(G.contents, L.top_recs[k])]
       IN After(Done([L EXCEPT !.rec_titles = titles],
                     Response(200, "recommendations", titles)), G)

\* One step of a running call.
Step(L, G) ==
  CASE L.pc = "line37" -> Line37(L, G)
    [] L.pc = "line43" -> Line43(L, G)
    [] L.pc = "line47" -> Line47(L, G)
    [] L.pc = "line53" -> Line53(L, G)
    [] L.pc = "line54" -> Line54(L, G)

RECURSIVE Run(_, _)
\* A call run to its answer without interruption.
Run(L, G) ==
  IF L.pc = "done" THEN After(L, G)
  ELSE LET R == Step(L, G) IN Run(R.loc, R.glob)

\* recommend() as a function of the body and the globals.
recommend(b, G) == Run(Begin(b), G)

\* -------------------------------------------------------------- data sets

\* The catalogs of up to MaxCat different items of a pool, in any order.
Catalogs(pool) ==
  { c \in UNION { [1..n -> pool] : n \in 0..MaxCat } :
      \A j, k \in DOMAIN c : j # k => c[j] # c[k] }

\* The user ids of the general data sets, and the data sets.
UserIds == {1, 2}

UserPairs ==
  { << <<1, 1>>, <<0, 0>> >>, << <<1, 0>>, <<1, 1>> >>, << <<0, 0>>, <<1, 0>> >> }

UserSets == { [u \in UserIds |-> p[u]] : p \in UserPairs }

Slots == 1..NumReq

\* The user_id values a request may carry, and the bodies.
UserIdValues ==
  {JNull, JStr(1), JList, JBool(1), JFloat(2), JInt(0), JInt(1), JInt(2)}

Bodies ==
  {ObjectBody(TRUE, v) : v \in UserIdValues}
    \cup {ObjectBody(FALSE, JNull), ArrayBody, MalformedBody}

ConcBodies == {ObjectBody(TRUE, v) : v \in {JInt(1), JInt(2), JInt(3), JList}}

\* ------------------------------------------------------------------ state

VARIABLES
  users,     \* the module's users dict
  contents,  \* the module's contents list
  req,       \* per request slot, the frame of the call it runs
  seen       \* per user id, the first answer a call for it got (history)

vars == <<users, contents, req, seen>>

Globals == [users |-> users, contents |-> contents]

\* Mutant: similarities is one list of the module, seen by every call.
StoreShared(rq, t, L) ==
  [s \in DOMAIN rq |->
     IF s = t THEN L
     ELSE IF rq[s].pc \in {"idle", "done"} THEN rq[s]
     ELSE [rq[s] EXCEPT !.similarities = L.similarities]]

\* A call's frame is its own: a step writes the frame of its slot only.
Store(rq, t, L) == [rq EXCEPT ![t] = L]

\* The history: the first answer given for each known user id.
Remember(sn, L) ==
  IF /\ L.pc = "done"
     /\ L.body.kind = "object"
     /\ Hashable(L.user_id)
     /\ KeyOf(L.user_id) \in DOMAIN sn
     /\ sn[KeyOf(L.user_id)] = NoResponse
  THEN [sn EXCEPT ![KeyOf(L.user_id)] = L.response]
  ELSE sn

InitFrames ==
  /\ req = [t \in Slots |-> NewFrame]
  /\ seen = [u \in DOMAIN users |-> NoResponse]

Init ==
  /\ users \in UserSets
  /\ contents \in Catalogs(ItemPool)
  /\ InitFrames

InitFixture ==
  /\ users = FixtureUsers
  /\ contents = FixtureContents
  /\ InitFrames

InitRagged ==
  /\ users \in UserSets
  /\ contents \in Catalogs(RaggedPool)
  /\ InitFrames

\* A request served from its arrival to its answer, no other in flight.
Call(b) ==
  /\ \A t \in Slots : req[t].pc \in {"idle", "done"}
  /\ LET R == recommend(b, Globals)
     IN /\ req' = Store(req, 1, R.loc)
        /\ users' = R.glob.users
        /\ contents' = R.glob.contents
        /\ seen' = Remember(seen, R.loc)

\* A request arrives at a free slot.
Start(t, b) ==
  /\ req[t].pc = "idle"
  /\ req' = Store(req, t, Begin(b))
  /\ UNCHANGED <<users, contents, seen>>

\* The call of slot t runs its next step.
Advance(t) ==
  /\ req[t].pc \notin {"idle", "done"}
  /\ LET R == Step(req[t], Globals)
     IN /\ req' = Store(req, t, R.loc)
        /\ users' = R.glob.users
        /\ contents' = R.glob.contents
        /\ seen' = Remember(seen, R.loc)

\* The answer is sent and the frame is gone.
Return(t) ==
  /\ req[t].pc = "done"
  /\ req' = Store(req, t, NewFrame)
  /\ UNCHANGED <<users, contents, seen>>

Next == \E b \in Bodies : Call(b)

NextConc ==
  \E t \in Slots :
    \/ \E b \in ConcBodies : Start(t, b)
    \/ Advance(t)
    \/ Return(t)

\* Requests one after another, over the general data sets.
Spec == Init /\ [][Next]_vars

\* Requests one after another, over data sets with a vector-length mismatch.
SpecRagged == InitRagged /\ [][Next]_vars

\* Concurrent requests over the module's own data.
SpecConc == InitFixture /\ [][NextConc]_vars

\* ----------------------------------------------------------------- claims

\* The JSON value v equals the user id k, as Python compares them.
NumEq(v, k) ==
  \/ v.t \in {"int", "bool"} /\ v.v = k
  \/ v.t = "float" /\ v.v = 2 * k

\* The request's user_id is a key of users.
IsKey(v) == \E k \in DOMAIN users : NumEq(v, k)

\* An answered request for a user of the data set, and that user's vector.
Answered(L) == L.pc = "done" /\ L.body.kind = "object"
KnownUser(L) == Answered(L) /\ IsKey(DictGet(L.body))
PrefsOf(L) == users[CHOOSE k \in DOMAIN users : NumEq(DictGet(L.body), k)]

CatalogSize == Len(contents)
Expected == IF CatalogSize < 3 THEN CatalogSize ELSE 3

\* The score of the j-th catalog item for the preference vector u.
Score(u, j) == Similarity(u, contents[j].features).val

\* Item q is ranked before item j: a higher score, or the same score and an
\* earlier place in the catalog.
Before(u, q, j) ==
  \/ FlLt(Score(u, j), Score(u, q))
  \/ Score(u, q) = Score(u, j) /\ q < j

Rank(u, j) == 1 + Cardinality({q \in 1..CatalogSize : Before(u, q, j)})

AllZero(v) == \A k \in DOMAIN v : v[k] = 0

\* f is u times a positive factor (both without negative components).
Parallel(u, f) ==
  /\ Len(u) = Len(f)
  /\ ~AllZero(f)
  /\ \A j, k \in DOMAIN u : u[j] * f[k] = u[k] * f[j]

\* C1: for a user of the data set, the answer holds the titles of the first
\* min(3, catalog size) items of the catalog ordered by descending score, items
\* of equal score in catalog order, the i-th title being that of the i-th
\* selected id.
C1_TopThreeByScore ==
  \A t \in Slots :
    KnownUser(req[t]) =>
      LET L == req[t]
          u == PrefsOf(L)
      IN /\ L.response.status = 200
         /\ L.response.key = "recommendations"
         /\ Len(L.response.titles) = Expected
         /\ Len(L.top_recs) = Expected
         /\ \A j \in 1..CatalogSize :
              Rank(u, j) <= Expected =>
                /\ L.top_recs[Rank(u, j)][1] = contents[j].id
                /\ L.response.titles[Rank(u, j)] = contents[j].title

\* A catalog of more than three items where two of the selected items tie
\* with a score that is not zero, and an item is left out.
C1_Witness ==
  \E t \in Slots :
    /\ KnownUser(req[t])
    /\ CatalogSize > 3
    /\ \E j, q \in 1..CatalogSize :
         /\ j < q
         /\ Score(PrefsOf(req[t]), j) = Score(PrefsOf(req[t]), q)
         /\ Score(PrefsOf(req[t]), j).m > 0
         /\ Rank(PrefsOf(req[t]), q) <= 3
         /\ req[t].response.titles[Rank(PrefsOf(req[t]), q)] = contents[q].title

\* C2 (as claimed): a request whose user_id is no key of users, whatever
\* JSON value it is, is answered 404 with an 'error' field and no title list.
C2_UnknownUserIsNotFound ==
  \A t \in Slots :
    (Answered(req[t]) /\ ~IsKey(DictGet(req[t].body))) =>
      req[t].response = Response(404, "error", <<>>)

\* C3: for a user of the data set and a catalog that is not empty, the answer
\* holds exactly min(3, catalog size) titles.
C3_BoundedOutput ==
  \A t \in Slots :
    (KnownUser(req[t]) /\ CatalogSize >= 1) =>
      /\ req[t].response.key = "recommendations"
      /\ Len(req[t].response.titles) = (IF CatalogSize >= 3 THEN 3 ELSE CatalogSize)

\* A catalog of four items answered with three titles.
C3_Witness ==
  \E t \in Slots :
    KnownUser(req[t]) /\ CatalogSize = 4 /\ Len(req[t].response.titles) = 3

\* C6: a user whose preferences are all zero gets score 0 for every item and
\* the first min(3, catalog size) titles in catalog order; an item whose
\* features are all zero scores 0 for every user.
C6_ZeroVector ==
  \A t \in Slots :
    KnownUser(req[t]) =>
      LET L == req[t]
          u == PrefsOf(L)
      IN /\ Len(L.similarities) = CatalogSize
         /\ \A j \in 1..CatalogSize :
              (AllZero(u) \/ AllZero(contents[j].features)) =>
                L.similarities[j] = <<contents[j].id, FlZero>>
         /\ AllZero(u) =>
              /\ L.response.status = 200
              /\ L.response.titles = [k \in 1..Expected |-> contents[k].title]

\* A user with zero preferences answered from a catalog of four items, and a
\* user with other preferences scored against a zero item.
C6_Witness ==
  \E t \in Slots :
    /\ KnownUser(req[t])
    /\ AllZero(PrefsOf(req[t]))
    /\ CatalogSize = 4
    /\ Len(req[t].response.titles) = 3
    /\ \E k \in DOMAIN users : ~AllZero(users[k])

\* Some item's feature vector has another length than the user's.
Mismatched(u) == {j \in 1..CatalogSize : Len(contents[j].features) # Len(u)}
FirstMismatch(u) == CHOOSE j \in Mismatched(u) : \A q \in Mismatched(u) : j <= q

\* C7: when an item's feature vector differs in length from the user's
\* preference vector, the request fails with an error and no recommendations
\* list, and no score is computed for the mismatched pair.
C7_LengthMismatchFails ==
  \A t \in Slots :
    (KnownUser(req[t]) /\ Mismatched(PrefsOf(req[t])) # {}) =>
      /\ req[t].response = Crash("ValueError")
      /\ req[t].rec_titles = <<>>
      /\ Len(req[t].similarities) = FirstMismatch(PrefsOf(req[t])) - 1

\* A failed request whose mismatched item came after a scored one.
C7_Witness ==
  \E t \in Slots :
    /\ KnownUser(req[t])
    /\ Mismatched(PrefsOf(req[t])) # {}
    /\ FirstMismatch(PrefsOf(req[t])) > 1
    /\ req[t].response.status = 500

\* C8 (as claimed): an item whose features are the user's preferences times a
\* positive factor has the maximal score: no item scores higher, and it is the
\* first recommendation unless an earlier item scores the maximum too.
C8_SelfSimilarityMaximal ==
  \A t \in Slots :
    KnownUser(req[t]) =>
      LET u == PrefsOf(req[t])
          Top(j) == \A q \in 1..CatalogSize : ~FlLt(Score(u, j), Score(u, q))
      IN \A j \in 1..CatalogSize :
           (~AllZero(u) /\ Parallel(u, contents[j].features)) =>
             /\ Top(j)
             /\ \/ req[t].top_recs[1][1] = contents[j].id
                \/ \E q \in 1..(j - 1) : Top(q)

\* The module's own data, and the scores of a user's finished request.
OwnData == users = FixtureUsers /\ contents = FixtureContents
RequestOf(t, uid) == req[t].pc = "done" /\ req[t].body = ObjectBody(TRUE, JInt(uid))
ScoreOf(t, j) == req[t].similarities[j][2]

\* C4: with the module's data, user 1 ([5,4,0,0,5]) scores ids 1 and 5 equal
\* and highest, id 2 next, ids 3 and 4 at 0, and gets "Action Adventure",
\* "Fantasy Tale", "Sci-Fi Epic" in that order.
C4_FixtureUserOne ==
  \A t \in Slots :
    (OwnData /\ RequestOf(t, 1)) =>
      /\ ScoreOf(t, 1) = ScoreOf(t, 5)
      /\ FlLt(ScoreOf(t, 2), ScoreOf(t, 1))
      /\ FlLt(FlZero, ScoreOf(t, 2))
      /\ ScoreOf(t, 3) = FlZero
      /\ ScoreOf(t, 4) = FlZero
      /\ [k \in 1..3 |-> req[t].top_recs[k][1]] = <<1, 5, 2>>
      /\ req[t].response =
           Response(200, "recommendations",
                    <<"Action Adventure", "Fantasy Tale", "Sci-Fi Epic">>)

C4_Witness == \E t \in Slots : OwnData /\ RequestOf(t, 1) /\ req[t].response.status = 200

\* C5 (as claimed): with the module's data, user 2 ([0,0,5,4,3]) has id 3 as
\* the top match, then id 4, ids 1, 2 and 5 score 0, and "Comedy Special" is
\* the first title.
C5_FixtureUserTwoZeroScores ==
  \A t \in Slots :
    (OwnData /\ RequestOf(t, 2)) =>
      /\ req[t].top_recs[1][1] = 3
      /\ req[t].top_recs[2][1] = 4
      /\ ScoreOf(t, 1) = FlZero
      /\ ScoreOf(t, 2) = FlZero
      /\ ScoreOf(t, 5) = FlZero
      /\ req[t].response.titles[1] = "Comedy Special"

\* C5 (amended): user 2 has id 3 as the top match, then id 4; ids 1, 2 and 5
\* score the same value above 0 and below id 4's, so that id 1 is third; the
\* titles are "Comedy Special", "Drama Series", "Action Adventure".
C5_FixtureUserTwo ==
  \A t \in Slots :
    (OwnData /\ RequestOf(t, 2)) =>
      /\ FlLt(ScoreOf(t, 4), ScoreOf(t, 3))
      /\ FlLt(ScoreOf(t, 1), ScoreOf(t, 4))
      /\ FlLt(FlZero, ScoreOf(t, 1))
      /\ ScoreOf(t, 2) = ScoreOf(t, 1)
      /\ ScoreOf(t, 5) = ScoreOf(t, 1)
      /\ [k \in 1..3 |-> req[t].top_recs[k][1]] = <<3, 4, 1>>
      /\ req[t].response =
           Response(200, "recommendations",
                    <<"Comedy Special", "Drama Series", "Action Adventure">>)

C5_Witness == \E t \in Slots : OwnData /\ RequestOf(t, 2) /\ req[t].response.status = 200

RECURSIVE Trace(_, _)
\* The frames a call passes through when it runs alone.
Trace(L, G) ==
  IF L.pc = "done" THEN {L} ELSE {L} \cup Trace(Step(L, G).loc, G)

\* C9: under any interleaving of concurrent requests, users and contents keep
\* their initial values, and every request is, at each of its steps, in a
\* state it passes through when it runs alone: its answer is the one it gets
\* alone.
C9_Isolation ==
  /\ OwnData
  /\ \A t \in Slots :
       req[t].pc # "idle" =>
         /\ req[t] \in Trace(Begin(req[t].body),
                             [users |-> FixtureUsers, contents |-> FixtureContents])
         /\ req[t].pc = "done" =>
              req[t].response =
                recommend(req[t].body,
                          [users |-> FixtureUsers, contents |-> FixtureContents]).loc.response

\* Two requests inside the scoring loop at once, at different places, one for
\* each user.
C9_Witness ==
  \E t1, t2 \in Slots :
    /\ req[t1].pc = "line47" /\ req[t2].pc = "line47"
    /\ req[t1].i > req[t2].i /\ req[t2].i > 1
    /\ req[t1].body # req[t2].body

\* C10: every answer to a request for a user of the data set equals the
\* first answer ever given for that user, whatever calls came before or run
\* beside it.
C10_Determinism ==
  \A t \in Slots :
    KnownUser(req[t]) =>
      LET k == CHOOSE k \in DOMAIN users : NumEq(DictGet(req[t].body), k)
      IN /\ seen[k] # NoResponse
         /\ req[t].response = seen[k]
         /\ \A t2 \in Slots :
              (KnownUser(req[t2]) /\ req[t2].body = req[t].body) =>
                req[t2].response = req[t].response

\* Two answered requests for the same user, after both users were served.
C10_Witness ==
  \E t1, t2 \in Slots :
    /\ t1 # t2
    /\ KnownUser(req[t1]) /\ KnownUser(req[t2])
    /\ req[t1].body = req[t2].body
    /\ \A k \in DOMAIN users : seen[k] # NoResponse

====
